---- MODULE Spec2Model ----
(***************************************************************************)
(* GitHub Unfollower Pro (src/app.py): the rate-limit-aware API client,    *)
(* the paginator, the relationship cache and the graph operations, as a    *)
(* state machine.                                                          *)
(*                                                                         *)
(* The program's globals are the variables.  Every function of app.py is   *)
(* an operator that maps the state it reads (and the answers of the        *)
(* server it talks to) to the state it leaves and the value it returns;    *)
(* every action applies one function and keeps what it returned in "last". *)
(*                                                                         *)
(* Strings are sequences of one-character strings, so that str.strip and   *)
(* str.lower are computed and not assumed.                                 *)
(***************************************************************************)
EXTENDS Integers, Sequences, FiniteSets, TLC

VARIABLES
    now,                  \* time.time(), in seconds
    cache_data,           \* cache_data["following"], cache_data["followers"]
    cache_timestamp,      \* cache_timestamp[...]
    rate_limit_remaining, \* global rate_limit_remaining
    rate_limit_reset,     \* global rate_limit_reset
    server,               \* the remote service: the two relation lists
    fetched,              \* history: a fetch of the relation succeeded since the cache was last cleared
    last,                 \* the last call: what was called, what it returned, the requests it issued
    threads,              \* the UI layer's event listeners: the position of the handler each one runs
    loop                  \* a get_paginated followed iteration by iteration: its locals and its position

vars == <<now, cache_data, cache_timestamp, rate_limit_remaining, rate_limit_reset,
          server, fetched, last, threads, loop>>

----------------------------------------------------------------------------
(* Bounds of the model *)

\* longest relation list the server holds
MaxItems == 3
\* items per page the server returns to a request carrying per_page
HintedPageLen == 2
\* items per page the server returns to a request without per_page
DefaultPageLen == 1
\* longest sequence of scripted server answers of one call (later requests are answered normally)
MaxScript == 2
\* the clock at start-up (an epoch clock is far beyond CACHE_TIMEOUT)
StartTime == 1000
\* the clock stops the model here
MaxTime == 1600
\* most requests a server that throttles finitely often answers 429 in one fetch
MaxThrottle == 2
\* page_count is counted up to here
MaxPageCount == MaxItems + MaxThrottle + 1

----------------------------------------------------------------------------
(* Program constants *)

CACHE_TIMEOUT == 300
MIN_RATE_LIMIT_THRESHOLD == 100
INITIAL_REMAINING == 5000
SECONDARY_THRESHOLD == 1000
PER_PAGE == 100
RESET_BUFFER == 5
BATCH_SIZE == 10
PAUSE_CAP == 30

Relations == {"following", "followers"}

----------------------------------------------------------------------------
(* Strings *)

Min(a, b) == IF a < b THEN a ELSE b
Max(a, b) == IF a > b THEN a ELSE b

Range(s) == {s[i] : i \in DOMAIN s}

\* str.lower(), character by character
LowerChar(c) ==
    CASE c = "A" -> "a"
      [] c = "B" -> "b"
      [] c = "C" -> "c"
      [] OTHER -> c

Lower(s) == [i \in DOMAIN s |-> LowerChar(s[i])]

RECURSIVE LStrip(_)
LStrip(s) == IF s # <<>> /\ Head(s) = " " THEN LStrip(Tail(s)) ELSE s

RECURSIVE RStrip(_)
RStrip(s) ==
    IF s # <<>> /\ s[Len(s)] = " " THEN RStrip(SubSeq(s, 1, Len(s) - 1)) ELSE s

\* str.strip()
Strip(s) == RStrip(LStrip(s))

\* [f(x) for x in s]
RECURSIVE MapStrip(_)
MapStrip(s) == IF s = <<>> THEN <<>> ELSE <<Strip(Head(s))>> \o MapStrip(Tail(s))

\* s without the logins that name the account "name" (logins match whatever their case)
RECURSIVE Without(_, _)
Without(s, name) ==
    IF s = <<>> THEN <<>>
    ELSE IF Lower(Head(s)) = Lower(name) THEN Without(Tail(s), name)
    ELSE <<Head(s)>> \o Without(Tail(s), name)

----------------------------------------------------------------------------
(* Rate Tracker *)

\* the headers of a response: each quota header is a set, empty when absent
NoHeaders == [rem |-> {}, reset |-> {}]

TheOne(S) == CHOOSE x \in S : TRUE

\* a tracker to compare with: one that falls back to the start-up values when a
\* header is absent
update_rate_limit_info_default(q, hdr) ==
    [rem   |-> IF hdr.rem # {} THEN TheOne(hdr.rem) ELSE INITIAL_REMAINING,
     reset |-> IF hdr.reset # {} THEN TheOne(hdr.reset) ELSE 0]

update_rate_limit_info(q, hdr) ==
    [rem   |-> IF hdr.rem # {} THEN TheOne(hdr.rem) ELSE q.rem,
     reset |-> IF hdr.reset # {} THEN TheOne(hdr.reset) ELSE q.reset]

\* a delay policy to compare with: one whose thresholds fall in the shorter-delay tier
calculate_adaptive_delay_strict(remaining) ==
    IF remaining < MIN_RATE_LIMIT_THRESHOLD THEN 2000
    ELSE IF remaining < SECONDARY_THRESHOLD THEN 1000
    ELSE 200

\* in milliseconds: 2.0 s, 1.0 s, 0.2 s
calculate_adaptive_delay(remaining) ==
    IF remaining <= MIN_RATE_LIMIT_THRESHOLD THEN 2000
    ELSE IF remaining <= SECONDARY_THRESHOLD THEN 1000
    ELSE 200

----------------------------------------------------------------------------
(* The remote service *)

\* Kinds of answer the server gives to one request:
\*   "ok"    the request is served (200 / 204, or 404 when the target is absent)
\*   "odd"   a status below 400 the caller does not expect (202)
\*   "429"   rate limit exceeded
\*   "403"   a client error
\*   "404"   not found
\*   "fail"  the request never gets an answer (requests raises RequestException)
FaultKinds == {"429", "403", "fail"}

\* the answer to the n-th request of a call whose scripted answers are env
KindAt(env, n) == IF n <= Len(env) THEN env[n] ELSE "ok"

\* page size the server uses: the per_page of the query, else its default
PageLenFor(per_page) == IF per_page = {} THEN DefaultPageLen ELSE HintedPageLen

\* number of pages of a list of n items at page length len (an empty list is one empty page)
PagesOf(n, len) == IF n = 0 THEN 1 ELSE (n + len - 1) \div len

\* GET of one page of a relation list: the items and the 'next' link
ServerPage(list, url, params) ==
    LET pp    == url.per_page \cup params
        len   == PageLenFor(pp)
        first == (url.page - 1) * len + 1
        end   == Min(url.page * len, Len(list))
    IN  [items |-> IF first <= end THEN SubSeq(list, first, end) ELSE <<>>,
         next  |-> IF end < Len(list)
                   THEN {[path |-> url.path, page |-> url.page + 1, per_page |-> pp]}
                   ELSE {}]

----------------------------------------------------------------------------
(* Request Executor *)

\* "error_message = response.json().get('message', 'Unknown error') if response.text
\* else 'No response body'; raise GitHubAPIError(...)": what the executor raises for an
\* error status.  The body of the response is empty, a JSON object, or something
\* json() cannot turn into one; what json() raises then is a RequestException (which
\* the executor's own except clause turns into GitHubAPIError(0, ...)) or a ValueError
\* (which leaves the executor as it is), depending on the requests library installed.
ErrorOf(resp, q2, delay) ==
    IF resp.body = "invalid"
    THEN IF resp.json_raises = "RequestException"
         THEN [exc |-> "GitHubAPIError", status_code |-> 0, reset_time |-> 0,
               q |-> q2, delay |-> delay]
         ELSE [exc |-> "ValueError", status_code |-> 0, reset_time |-> 0,
               q |-> q2, delay |-> delay]
    ELSE [exc |-> "GitHubAPIError", status_code |-> resp.status, reset_time |-> 0,
          q |-> q2, delay |-> delay]

\* a Request Executor to compare with: one that classifies a 429 as any other client error
make_api_request_plain_429(method, resp, q) ==
    LET delay == calculate_adaptive_delay(q.rem)
        q2    == update_rate_limit_info(q, resp.hdr)
    IN  IF resp.failed
        THEN [exc |-> "GitHubAPIError", status_code |-> 0, reset_time |-> 0,
              q |-> q, delay |-> delay]
        ELSE IF resp.status >= 400 /\ ~(method = "DELETE" /\ resp.status = 404)
        THEN ErrorOf(resp, q2, delay)
        ELSE [exc |-> "none", status_code |-> resp.status, reset_time |-> 0,
              q |-> q2, delay |-> delay]

\* One request.  resp is what the transport gives: failed (no response), or a
\* status and the quota headers.  Returns the quota state it leaves, the delay it
\* slept before sending, and either the response or the exception it raises.
make_api_request(method, resp, q) ==
    LET delay == calculate_adaptive_delay(q.rem)
        q2    == update_rate_limit_info(q, resp.hdr)
    IN  IF resp.failed
        THEN [exc |-> "GitHubAPIError", status_code |-> 0, reset_time |-> 0,
              q |-> q, delay |-> delay]
        ELSE IF resp.status = 429
        THEN [exc |-> "RateLimitExceededError", status_code |-> 429,
              reset_time |-> IF resp.hdr.reset # {} THEN TheOne(resp.hdr.reset) ELSE 0,
              q |-> q2, delay |-> delay]
        ELSE IF resp.status >= 400 /\ ~(method = "DELETE" /\ resp.status = 404)
        THEN ErrorOf(resp, q2, delay)
        ELSE [exc |-> "none", status_code |-> resp.status, reset_time |-> 0,
              q |-> q2, delay |-> delay]

\* a response whose body is the JSON the API documents
Answer(status, hdr) ==
    [failed |-> FALSE, status |-> status, hdr |-> hdr, body |-> "json",
     json_raises |-> "RequestException"]

\* no response: the send failed
NoAnswer ==
    [failed |-> TRUE, status |-> 0, hdr |-> NoHeaders, body |-> "empty",
     json_raises |-> "RequestException"]

\* the transport's answer for a kind of server answer, okStatus being the status of a served request
RespOf(kind, okStatus, hdr) ==
    CASE kind = "fail" -> NoAnswer
      [] kind = "429"  -> Answer(429, hdr)
      [] kind = "403"  -> Answer(403, hdr)
      [] kind = "404"  -> Answer(404, hdr)
      [] kind = "odd"  -> Answer(202, hdr)
      [] OTHER         -> Answer(okStatus, hdr)

----------------------------------------------------------------------------
(* Paginator *)

\* params if page_count == 1 else None: the query parameters sent with a page request
PageParams(page_count) == IF page_count = 1 THEN {PER_PAGE} ELSE {}

\* a loop to compare with: one that keeps the last page only (results = data)
Extend_overwrite(results, data) == data

\* results.extend(data)
Extend(results, data) == results \o data

\* the time slept after a 429: max(1, reset_time - time.time() + 5)
RetryWait(reset_time, t) == Max(1, reset_time - t + RESET_BUFFER)

\* a loop to compare with: one that ends the fetch at a failed page and returns what it has
Raise_swallow(ls, r) == [ls EXCEPT !.current_url = {}]

\* "except GitHubAPIError ... raise" (and the except clauses after it): the loop ends
\* and the exception leaves get_paginated
Raise(ls, r) == [ls EXCEPT !.exc = r.exc, !.status_code = r.status_code]

\* a loop to compare with: one that gives the page up after a 429 and returns what
\* it has
Retry_give_up(ls, wait) == [ls EXCEPT !.waits = Append(@, wait), !.current_url = {}]

\* "time.sleep(max(1, wait_time)); continue": the wait, then the loop again with
\* current_url as it is
Retry(ls, wait) == [ls EXCEPT !.waits = Append(@, wait)]

\* (A value used more than once is bound as the one element of a set, TheOne({e : x \in {v}}),
\* so that it is computed once.)

\* One iteration of "while current_url", the server's answer being of the given kind.
\* ls: the loop's locals (results, page_count, current_url: a set, empty for None),
\* the quota state q, the requests issued so far (log) and the waits slept (waits).
PagIteration(ls, list, kind, hdr, t) ==
    LET url        == TheOne(ls.current_url)
        page_count == ls.page_count + 1
        params     == PageParams(page_count)
        r          == make_api_request("GET", RespOf(kind, 200, hdr), ls.q)
        page       == ServerPage(list, url, params)
        entry      == [method |-> "GET", url |-> url, params |-> params,
                       status |-> r.status_code, delay |-> r.delay]
        sent       == [ls EXCEPT !.page_count = page_count, !.q = r.q,
                                 !.log = Append(@, entry)]
    IN  IF r.exc = "RateLimitExceededError"
        THEN Retry(sent, RetryWait(r.reset_time, t))
        ELSE IF r.exc # "none"
        THEN Raise(sent, r)
        ELSE [sent EXCEPT !.results = Extend(@, page.items),
                          !.current_url = page.next]

\* "while current_url": the loop, env being the server's scripted answers
RECURSIVE PagLoop(_, _, _, _, _)

\* the loop from the locals ls on: it ends when current_url is None or an exception
\* was raised
PagStep(ls, list, env, hdr, t) ==
    IF ls.current_url = {} \/ ls.exc # "none" THEN ls
    ELSE PagLoop(PagIteration(ls, list, KindAt(env, Len(ls.log) + 1), hdr, t),
                 list, env, hdr, t)

PagLoop(ls0, list, env, hdr, t) == TheOne({PagStep(ls, list, env, hdr, t) : ls \in {ls0}})

\* the locals when the loop begins: results = [], page_count = 0, current_url = url
NewFetch(path, q) ==
    [results |-> <<>>, page_count |-> 0,
     current_url |-> {[path |-> path, page |-> 1, per_page |-> {}]},
     q |-> q, log |-> <<>>, waits |-> <<>>, exc |-> "none", status_code |-> 200]

get_paginated(path, list, env, hdr, q, t) ==
    PagLoop(NewFetch(path, q), list, env, hdr, t)

\* no get_paginated is followed
NoLoop ==
    [pc |-> "none", ls |-> NewFetch("", [rem |-> 0, reset |-> 0]), throttled |-> 0,
     forever |-> FALSE]

----------------------------------------------------------------------------
(* The world a function runs in: the globals, the server, the clock, and the
   requests issued (log) and waits slept (waits) since the call began. *)

World ==
    [cd |-> cache_data, ct |-> cache_timestamp,
     q |-> [rem |-> rate_limit_remaining, reset |-> rate_limit_reset],
     srv |-> server, now |-> now, fetched |-> fetched,
     log |-> <<>>, waits |-> <<>>]

\* the account the tool acts for (GITHUB_USERNAME)
USERNAME == <<"m", "e">>

\* the existing accounts of the service, by login
Accounts == {<<"a">>, <<"B">>, USERNAME}

\* the login of the account a name refers to (names match whatever their case), as a set
AccountOf(name) == {a \in Accounts : Lower(a) = Lower(name)}

Follows(list, name) == \E i \in DOMAIN list : Lower(list[i]) = Lower(name)

----------------------------------------------------------------------------
(* Relationship Cache *)

\* "if not force_refresh and cache_data[rel] and (current_time - cache_timestamp[rel] < CACHE_TIMEOUT)"
CacheFresh(force_refresh, data, stamp, current_time) ==
    ~force_refresh /\ data # <<>> /\ current_time - stamp < CACHE_TIMEOUT

\* "if cache_data[rel]" in the except branch: there is something to fall back on
HasFallback(data) == data # <<>>

\* a cache to compare with: one that reads the clock again when it stores the list
Stamp_at_store(current_time, end_time) == end_time

\* the value written to cache_timestamp[rel] by a fetch that began at current_time and ended at end_time
Stamp(current_time, end_time) == current_time

\* a cache to compare with: one that stores whatever pages were fetched before the error
StoreOrFallBack_partial(rel, w, current_time, p, dt) ==
    LET w1   == [w EXCEPT !.q = p.q, !.log = @ \o p.log, !.waits = @ \o p.waits,
                          !.now = @ + dt]
        list == MapStrip(p.results)
    IN  [w |-> [w1 EXCEPT !.cd[rel] = list,
                          !.ct[rel] = Stamp(current_time, w1.now),
                          !.fetched[rel] = TRUE],
         exc |-> "none", list |-> list, hit |-> FALSE, stored |-> TRUE]

\* get_following / get_followers: the two functions differ in the relation only.
\* env: the server's scripted answers to the page requests; hdr: the quota headers
\* its responses carry; dt: the time the fetch takes.
\* the try block and its except branch, p being what get_paginated gave
StoreOrFallBack(rel, w, current_time, p, dt) ==
    LET w1 == [w EXCEPT !.q = p.q, !.log = @ \o p.log, !.waits = @ \o p.waits,
                        !.now = @ + dt]
    IN  IF p.exc = "none"
        THEN LET list == MapStrip(p.results)
             IN  [w |-> [w1 EXCEPT !.cd[rel] = list,
                                   !.ct[rel] = Stamp(current_time, w1.now),
                                   !.fetched[rel] = TRUE],
                  exc |-> "none", list |-> list, hit |-> FALSE, stored |-> TRUE]
        ELSE IF HasFallback(w1.cd[rel])
        THEN [w |-> w1, exc |-> "none", list |-> w1.cd[rel], hit |-> FALSE,
              stored |-> FALSE]
        ELSE [w |-> w1, exc |-> p.exc, list |-> <<>>, hit |-> FALSE,
              stored |-> FALSE]

get_relation(rel, force_refresh, w, env, hdr, dt) ==
    LET current_time == w.now
    IN  IF CacheFresh(force_refresh, w.cd[rel], w.ct[rel], current_time)
        THEN [w |-> w, exc |-> "none", list |-> w.cd[rel], hit |-> TRUE, stored |-> FALSE]
        ELSE TheOne({StoreOrFallBack(rel, w, current_time, p, dt) :
                        p \in {get_paginated(rel, w.srv[rel], env, hdr, w.q, w.now)}})

get_following(force_refresh, w, env, hdr, dt) ==
    get_relation("following", force_refresh, w, env, hdr, dt)

get_followers(force_refresh, w, env, hdr, dt) ==
    get_relation("followers", force_refresh, w, env, hdr, dt)

----------------------------------------------------------------------------
(* Graph Operations *)

\* a caller to compare with: one that sends the request again when it ends in an error
Request_resend(method, url, okStatus, kind, hdr, w, dt) ==
    LET r     == make_api_request(method, RespOf(kind, okStatus, hdr), w.q)
        entry == [method |-> method, url |-> url, params |-> {},
                  status |-> r.status_code, delay |-> r.delay]
    IN  [r |-> r,
         w |-> [w EXCEPT !.q = r.q, !.now = @ + dt,
                         !.log = IF r.exc = "none" THEN Append(@, entry)
                                 ELSE Append(Append(@, entry), entry)]]

\* one request of a single-entity operation, logged
Request(method, url, okStatus, kind, hdr, w, dt) ==
    LET r == make_api_request(method, RespOf(kind, okStatus, hdr), w.q)
    IN  [r |-> r,
         w |-> [w EXCEPT !.q = r.q, !.now = @ + dt,
                         !.log = Append(@, [method |-> method, url |-> url, params |-> {},
                                            status |-> r.status_code, delay |-> r.delay])]]

\* a lookup to compare with: one without the except clauses
get_user_info_uncaught(username, w, kind, hdr, dt) ==
    LET url == [path |-> "users", name |-> username]
        rq  == Request("GET", url, IF AccountOf(username) # {} THEN 200 ELSE 404,
                       kind, hdr, w, dt)
    IN  [w |-> rq.w, found |-> rq.r.exc = "none" /\ rq.r.status_code = 200,
         exc |-> rq.r.exc]

\* found: the function returns the profile (None otherwise); exc: what it raises
\* (nothing: both except clauses return None)
get_user_info(username, w, kind, hdr, dt) ==
    LET url == [path |-> "users", name |-> username]
        rq  == Request("GET", url, IF AccountOf(username) # {} THEN 200 ELSE 404,
                       kind, hdr, w, dt)
    IN  [w |-> rq.w, found |-> rq.r.exc = "none" /\ rq.r.status_code = 200,
         exc |-> "none"]

\* the server's following list after it served DELETE /user/following/{username}
ServerUnfollow(list, username) == Without(list, username)

\* the server's following list after it served PUT /user/following/{username}
ServerFollow(list, username) ==
    IF Follows(list, username) \/ AccountOf(username) = {} THEN list
    ELSE Append(list, TheOne(AccountOf(username)))

\* an unfollow to compare with: one for which only 204 is success
UnfollowResult_204_only(r) == r.exc = "none" /\ r.status_code = 204

\* what unfollow_user returns for the outcome r of its DELETE: the status checks of
\* the try block, and the except branches
UnfollowResult(r) ==
    IF r.exc = "none" THEN r.status_code \in {204, 404}
    ELSE r.exc = "GitHubAPIError" /\ r.status_code = 404

\* an unfollow to compare with: one that sends its DELETE a second time when the
\* first fails
unfollow_user_retry(name, w, kind, hdr, dt) ==
    LET username == Strip(name)
    IN  IF username = <<>> THEN [w |-> w, ok |-> FALSE]
        ELSE
          LET url == [path |-> "following", name |-> username]
              rq1 == Request("DELETE", url,
                             IF Follows(w.srv.following, username) THEN 204 ELSE 404,
                             kind, hdr, w, dt)
              rq  == IF UnfollowResult(rq1.r) THEN rq1
                     ELSE Request("DELETE", url,
                                  IF Follows(w.srv.following, username) THEN 204 ELSE 404,
                                  kind, hdr, rq1.w, dt)
              srv == IF rq.r.exc = "none" /\ rq.r.status_code = 204
                     THEN [w.srv EXCEPT !.following = ServerUnfollow(@, username)]
                     ELSE w.srv
          IN  [w |-> [rq.w EXCEPT !.srv = srv], ok |-> UnfollowResult(rq.r)]

unfollow_user(name, w, kind, hdr, dt) ==
    LET username == Strip(name)
    IN  IF username = <<>> THEN [w |-> w, ok |-> FALSE]
        ELSE
          LET url == [path |-> "following", name |-> username]
              rq  == Request("DELETE", url,
                             IF Follows(w.srv.following, username) THEN 204 ELSE 404,
                             kind, hdr, w, dt)
              srv == IF rq.r.exc = "none" /\ rq.r.status_code = 204
                     THEN [w.srv EXCEPT !.following = ServerUnfollow(@, username)]
                     ELSE w.srv
          IN  [w |-> [rq.w EXCEPT !.srv = srv], ok |-> UnfollowResult(rq.r)]

\* "username in get_following()"
AlreadyFollowing(username, following) ==
    \E i \in DOMAIN following : following[i] = username

\* the name follow_user looks up and follows: username.lower().strip()
FollowName(name) == Strip(Lower(name))

\* a follow to compare with: one that never resets the timestamp
Invalidate_never(stamp, followed) == stamp

\* cache_timestamp["following"] after follow_user's PUT: reset on a 204
Invalidate(stamp, followed) == IF followed THEN 0 ELSE stamp

\* follow_user from its membership test on, g being what get_following gave
FollowAfterRead(username, g, kind, hdr, dt) ==
    IF g.exc # "none" THEN [w |-> g.w, ok |-> FALSE, put |-> FALSE, got |-> g]
    ELSE IF AlreadyFollowing(username, g.list)
    THEN [w |-> g.w, ok |-> TRUE, put |-> FALSE, got |-> g]
    ELSE
      LET url == [path |-> "following", name |-> username]
          rq  == Request("PUT", url, IF AccountOf(username) # {} THEN 204 ELSE 404,
                         kind, hdr, g.w, dt)
          yes == rq.r.exc = "none" /\ rq.r.status_code = 204
          srv == IF yes THEN [g.w.srv EXCEPT !.following = ServerFollow(@, username)]
                 ELSE g.w.srv
      IN  [w |-> [rq.w EXCEPT !.srv = srv,
                              !.ct.following = Invalidate(@, yes)],
           ok |-> yes, put |-> TRUE, got |-> g]

follow_user(name, w, env, kind, hdr, dt) ==
    TheOne({FollowAfterRead(FollowName(name), g, kind, hdr, dt) :
               g \in {get_following(FALSE, w, env, hdr, dt)}})

\* a snapshot to compare with: one that compares logins whatever their case
relationship_sets_lower(following, followers) ==
    LET following_set == {Lower(x) : x \in Range(following)}
        followers_set == {Lower(x) : x \in Range(followers)}
    IN  [mutuals |-> following_set \cap followers_set,
         non_mutuals |-> following_set \ followers_set,
         not_following_back |-> followers_set \ following_set]

\* Step 3 of get_account_stats: the three sets, Python sets of strings
relationship_sets(following, followers) ==
    LET following_set == Range(following)
        followers_set == Range(followers)
    IN  [mutuals |-> following_set \cap followers_set,
         non_mutuals |-> following_set \ followers_set,
         not_following_back |-> followers_set \ following_set]

StatsError(w) ==
    [w |-> w, error |-> TRUE, following |-> <<>>, followers |-> <<>>,
     mutuals |-> {}, non_mutuals |-> {}, not_following_back |-> {},
     total_following |-> 0, total_followers |-> 0, profile |-> FALSE]

\* a snapshot to compare with: one that fails when the profile lookup returns None
StatsOf_profile_required(f, g, kind, hdr, dt) ==
    LET u == get_user_info(USERNAME, g.w, kind, hdr, dt)
    IN  IF u.found
        THEN [w |-> u.w, error |-> FALSE, following |-> f.list, followers |-> g.list,
              mutuals |-> Range(f.list) \cap Range(g.list),
              non_mutuals |-> Range(f.list) \ Range(g.list),
              not_following_back |-> Range(g.list) \ Range(f.list),
              total_following |-> Len(f.list), total_followers |-> Len(g.list),
              profile |-> TRUE]
        ELSE StatsError(u.w)

\* Steps 3 and 4, f and g being what the two reads gave
StatsOf(f, g, kind, hdr, dt) ==
    LET sets == relationship_sets(f.list, g.list)
        u    == get_user_info(USERNAME, g.w, kind, hdr, dt)
    IN  [w |-> u.w, error |-> FALSE, following |-> f.list, followers |-> g.list,
         mutuals |-> sets.mutuals,
         non_mutuals |-> sets.non_mutuals,
         not_following_back |-> sets.not_following_back,
         total_following |-> Len(f.list), total_followers |-> Len(g.list),
         profile |-> u.found]

\* Step 2 on, f being what get_following gave
StatsAfterFollowing(force_refresh, f, env2, kind, hdr, dt) ==
    IF f.exc # "none" THEN StatsError(f.w)
    ELSE TheOne({IF g.exc # "none" THEN StatsError(g.w) ELSE StatsOf(f, g, kind, hdr, dt) :
                    g \in {get_followers(force_refresh, f.w, env2, hdr, dt)}})

\* Steps 1 to 4 of get_account_stats, and its except branch
get_account_stats(force_refresh, w, env1, env2, kind, hdr, dt) ==
    TheOne({StatsAfterFollowing(force_refresh, f, env2, kind, hdr, dt) :
               f \in {get_following(force_refresh, w, env1, hdr, dt)}})

\* a handler to compare with: one that resets the timestamps and keeps the lists
clear_cache_stamps_only(w) ==
    [w EXCEPT !.ct = [r \in Relations |-> 0], !.fetched = [r \in Relations |-> FALSE]]

\* clear_cache_handler
clear_cache(w) ==
    [w EXCEPT !.cd = [r \in Relations |-> <<>>], !.ct = [r \in Relations |-> 0],
              !.fetched = [r \in Relations |-> FALSE]]

----------------------------------------------------------------------------
(* Bulk Orchestrator *)

\* no snapshot read
NoSnap == [error |-> FALSE, following |-> <<>>, followers |-> <<>>,
           mutuals |-> {}, non_mutuals |-> {}, not_following_back |-> {},
           total_following |-> 0, total_followers |-> 0, profile |-> FALSE]

\* what get_account_stats returned
SnapOf(s) ==
    [error |-> s.error, following |-> s.following, followers |-> s.followers,
     mutuals |-> s.mutuals, non_mutuals |-> s.non_mutuals,
     not_following_back |-> s.not_following_back,
     total_following |-> s.total_following, total_followers |-> s.total_followers,
     profile |-> s.profile]

\* a listing to compare with: one that lists every login, of the set or not
ListOf_everyone(S, order) == order

\* list(a_set): the elements of S in the order the interpreter iterates the set,
\* order being that order over all logins
ListOf(S, order) ==
    LET In(x) == x \in S
    IN  SelectSeq(order, In)

\* a_list[:count]
Slice(s, count) ==
    IF count >= 0 THEN SubSeq(s, 1, Min(count, Len(s)))
    ELSE SubSeq(s, 1, Max(0, Len(s) + count))

\* the locals of a bulk loop: results and the count of successes, with the world;
\* items: the list the loop walks; pauses, delays: the sleeps of the loop;
\* each result keeps the quota and the clock as they were when the item was done,
\* and the number of requests the run had issued by then (sent); start: the number
\* it had issued when the loop began
NewLoop(w, items) ==
    [w |-> w, items |-> items, results |-> <<>>, successful |-> 0,
     pauses |-> <<>>, delays |-> <<>>, start |-> Len(w.log)]

\* "if i % batch_size == 0 or i == len(...)": the progress report of
\* execute_full_unfollow and its pause when the quota is low
LowQuotaPause(b, i) ==
    IF /\ (i % BATCH_SIZE = 0 \/ i = Len(b.items))
       /\ b.w.q.rem < MIN_RATE_LIMIT_THRESHOLD
    THEN LET wait_time == Min(PAUSE_CAP, b.w.q.reset - b.w.now)
         IN  IF wait_time > 0
             THEN [b EXCEPT !.w.now = @ + wait_time,
                            !.pauses = Append(@, [i |-> i, wait |-> wait_time])]
             ELSE b
    ELSE b

\* the body of a loop after the operation on item i returned ok in world w:
\* the result is appended, the pause taken (pausing: the loop has the progress
\* report), the adaptive delay slept
Recorded(b, i, w, ok, pausing) ==
    LET b1 == [b EXCEPT !.w = w,
                        !.successful = IF ok THEN @ + 1 ELSE @,
                        !.results = Append(@, [user |-> b.items[i], ok |-> ok,
                                               rem |-> w.q.rem, reset |-> w.q.reset,
                                               at |-> w.now, sent |-> Len(w.log)])]
        b2 == IF pausing THEN LowQuotaPause(b1, i) ELSE b1
    IN  [b2 EXCEPT !.delays = Append(@, calculate_adaptive_delay(b2.w.q.rem))]

\* "for i, user in enumerate(..., 1)": the loops of the two unfollow runs, from item i
\* on; kinds: the server's answers to the items' requests, hdr: the quota headers
RECURSIVE UnfollowLoop(_, _, _, _, _)
UnfollowLoop(b, i, kinds, hdr, pausing) ==
    IF i > Len(b.items) THEN b
    ELSE TheOne({UnfollowLoop(Recorded(b, i, u.w, u.ok, pausing), i + 1, kinds, hdr, pausing) :
                    u \in {unfollow_user(b.items[i], b.w, KindAt(kinds, i), hdr, 0)}})

\* the loop of follow_selected_users
RECURSIVE FollowLoop(_, _, _, _)
FollowLoop(b, i, kinds, hdr) ==
    IF i > Len(b.items) THEN b
    ELSE TheOne({FollowLoop(Recorded(b, i, f.w, f.ok, FALSE), i + 1, kinds, hdr) :
                    f \in {follow_user(b.items[i], b.w, <<>>, KindAt(kinds, i), hdr, 0)}})

\* what a bulk run returns: a summary with the results, a message (error: the
\* "Error: ..." of an except branch; nothing: nothing to do; invalid: no usable
\* input), or raised: an exception leaves the function; snap: the snapshot an
\* unfollow run read when it began, listed: its list of non-mutuals
Outcome(returned, b, refreshed) ==
    [w |-> b.w, returned |-> returned, items |-> b.items, results |-> b.results,
     successful |-> b.successful, pauses |-> b.pauses, delays |-> b.delays,
     refreshed |-> refreshed, start |-> b.start, snap |-> NoSnap, listed |-> <<>>]

\* "if successful > 0: new_following = get_following(force_refresh=True)", then the
\* summary; guarded: the refresh is inside the function's try block
RefreshAndSummarise(b, env, hdr, guarded) ==
    IF b.successful > 0
    THEN TheOne({IF g.exc = "none"
                 THEN Outcome("summary", [b EXCEPT !.w = g.w], TRUE)
                 ELSE Outcome(IF guarded THEN "error" ELSE "raised",
                              [b EXCEPT !.w = g.w], TRUE) :
                    g \in {get_following(TRUE, b.w, env, hdr, 0)}})
    ELSE Outcome("summary", b, FALSE)

\* the run of an unfollow function from the snapshot s on: users is what it takes
\* of the non-mutuals
UnfollowRun(s, non_mutuals, users, env, pausing) ==
    LET o == IF s.error THEN Outcome("error", NewLoop(s.w, <<>>), FALSE)
             ELSE IF non_mutuals = <<>> THEN Outcome("nothing", NewLoop(s.w, <<>>), FALSE)
             ELSE TheOne({RefreshAndSummarise(b, env.refresh, env.hdr, TRUE) :
                             b \in {UnfollowLoop(NewLoop(s.w, users), 1, env.kinds,
                                                 env.hdr, pausing)}})
    IN  [o EXCEPT !.snap = SnapOf(s), !.listed = non_mutuals]

\* env: the order in which the interpreter lists a set (order), the answers to the
\* reads of the snapshot (stats), to the items' requests (kinds) and to the refresh
\* (refresh), and the quota headers of the responses (hdr)
execute_selective_unfollow(unfollow_count, w, env) ==
    TheOne({UnfollowRun(s, ListOf(s.non_mutuals, env.order),
                        Slice(ListOf(s.non_mutuals, env.order), unfollow_count),
                        env, FALSE) :
               s \in {get_account_stats(FALSE, w, env.stats, <<>>, "ok", env.hdr, 0)}})

execute_full_unfollow(w, env) ==
    TheOne({UnfollowRun(s, ListOf(s.non_mutuals, env.order),
                        ListOf(s.non_mutuals, env.order), env, TRUE) :
               s \in {get_account_stats(FALSE, w, env.stats, <<>>, "ok", env.hdr, 0)}})

\* [u.strip() for u in usernames.split(',') if u.strip()], pieces being
\* usernames.split(',')
RECURSIVE UserList(_)
UserList(pieces) ==
    IF pieces = <<>> THEN <<>>
    ELSE IF Strip(Head(pieces)) = <<>> THEN UserList(Tail(pieces))
    ELSE <<Strip(Head(pieces))>> \o UserList(Tail(pieces))

\* pieces: usernames.split(','); a string without a comma is one piece
follow_selected_users(pieces, w, env) ==
    IF Len(pieces) = 1 /\ Strip(pieces[1]) = <<>>
    THEN Outcome("invalid", NewLoop(w, <<>>), FALSE)
    ELSE IF UserList(pieces) = <<>>
    THEN Outcome("invalid", NewLoop(w, <<>>), FALSE)
    ELSE TheOne({RefreshAndSummarise(b, env.refresh, env.hdr, FALSE) :
                    b \in {FollowLoop(NewLoop(w, UserList(pieces)), 1, env.kinds,
                                      env.hdr)}})

----------------------------------------------------------------------------
(* The UI layer: the event listeners bound to the buttons, and the handler each runs *)

\* the listeners that enter the core (stats_btn, full_unfollow_btn,
\* follow_selected_btn, clear_cache_btn)
Listeners ==
    {"stats_handler", "full_unfollow_handler", "follow_selected_handler",
     "clear_cache_handler"}

\* a step of a handler: a cached read of a relation, the profile lookup, a DELETE or
\* a PUT for a name, the planning of the DELETEs once the snapshot is read, the
\* refresh after a run, the clearing of the cache
Step(op, rel, force, name) == [op |-> op, rel |-> rel, force |-> force, name |-> name]

NoStep == Step("", "", FALSE, <<>>)

\* get_account_stats: the two reads and the profile lookup
StatsSteps(force_refresh) ==
    <<Step("get", "following", force_refresh, <<>>),
      Step("get", "followers", force_refresh, <<>>),
      Step("lookup", "", FALSE, USERNAME)>>

\* what the user typed in the follow box when the button was clicked
TypedNames == <<<<"a">>>>

\* follow_user for each name typed (its read of the following list, then its PUT),
\* then the refresh
RECURSIVE FollowSteps(_)
FollowSteps(names) ==
    IF names = <<>> THEN <<Step("refresh", "", FALSE, <<>>)>>
    ELSE <<Step("get", "following", FALSE, <<>>), Step("put", "", FALSE, Head(names))>>
         \o FollowSteps(Tail(names))

\* unfollow_user for each non-mutual, then the refresh
RECURSIVE UnfollowSteps(_)
UnfollowSteps(users) ==
    IF users = <<>> THEN <<Step("refresh", "", FALSE, <<>>)>>
    ELSE <<Step("delete", "", FALSE, Head(users))>> \o UnfollowSteps(Tail(users))

\* the steps of the function a handler calls
Program(h) ==
    CASE h = "stats_handler"           -> StatsSteps(FALSE)
      [] h = "full_unfollow_handler"   -> StatsSteps(FALSE) \o <<Step("plan", "", FALSE, <<>>)>>
      [] h = "follow_selected_handler" -> FollowSteps(TypedNames)
      [] OTHER                         -> <<Step("clear", "", FALSE, <<>>)>>

\* a listener whose handler is not running; a running handler has the steps it has
\* still to do (todo), the request it waits the answer of (req, when pc is
\* "in_flight"), and its locals: current_time (t0), the lists read, the successes
Parked ==
    [pc |-> "idle", todo |-> <<>>, req |-> NoStep, t0 |-> 0,
     lists |-> [r \in Relations |-> <<>>], successful |-> 0]

----------------------------------------------------------------------------
(* What the environment may do *)

\* the scripted answers to a call's page requests: nothing follows an error that
\* ends the fetch, and a script does not end in "ok" (requests past it are served)
Scripts(n) ==
    {s \in UNION {[1..k -> {"ok"} \cup FaultKinds] : k \in 0..n} :
        /\ \A i \in 1..(Len(s) - 1) : s[i] \in {"ok", "429"}
        /\ s # <<>> => s[Len(s)] # "ok"}

\* the answers to the request of a single-entity operation
Kinds1 == {"ok", "odd", "429", "403", "404", "fail"}

\* the quota headers the responses of a call carry
LowQuota == [rem |-> {50}, reset |-> {StartTime + 60}]
Headers == {NoHeaders, LowQuota}

\* the time a fetch takes: below the clock's resolution, or as long as the ttl
Elapsed == {0, CACHE_TIMEOUT}

\* names a caller passes to follow and unfollow
Names == {<<"a">>, <<"B">>, <<"b">>, <<" ", "a">>, <<" ">>}

\* the globals and the server as a call finds them
Before ==
    [now |-> now, cd |-> cache_data, ct |-> cache_timestamp, srv |-> server,
     fetched |-> fetched, rem |-> rate_limit_remaining, reset |-> rate_limit_reset]

NoBefore ==
    [now |-> 0, cd |-> [r \in Relations |-> <<>>], ct |-> [r \in Relations |-> 0],
     srv |-> [r \in Relations |-> <<>>], fetched |-> [r \in Relations |-> FALSE],
     rem |-> 0, reset |-> 0]

\* one call of make_api_request: what it was given and what it gave back
NoReq ==
    [method |-> "", resp |-> NoAnswer, exc |-> "none", status_code |-> 0, reset_time |-> 0]

\* what a bulk run returned and did
NoBulk ==
    [returned |-> "", items |-> <<>>, results |-> <<>>, successful |-> 0,
     pauses |-> <<>>, delays |-> <<>>, refreshed |-> FALSE, start |-> 0,
     listed |-> <<>>]

BulkOf(o) ==
    [returned |-> o.returned, items |-> o.items, results |-> o.results,
     successful |-> o.successful, pauses |-> o.pauses, delays |-> o.delays,
     refreshed |-> o.refreshed, start |-> o.start, listed |-> o.listed]

\* the record of a call: its name and arguments (op, arg, force), what it returned
\* (exc: the exception it raised; list, ok, snap: its value), what it did (hit: served
\* from the cache; stored: replaced the cache entry; put: issued a PUT; log: the
\* requests issued; waits: the waits slept after a 429) and the state it found (pre)
Call(op) ==
    [op |-> op, arg |-> <<>>, force |-> FALSE, exc |-> "none", list |-> <<>>,
     ok |-> FALSE, hit |-> FALSE, stored |-> FALSE, put |-> FALSE,
     log |-> <<>>, waits |-> <<>>,
     snap |-> NoSnap, req |-> NoReq, bulk |-> NoBulk, pre |-> NoBefore]

\* no call is running: the UI layer may call the next function
Idle == last.op = "none"

\* the call ends: the globals it leaves, and what it returned
Commit(w0, l) ==
  \E w \in {w0} :
    /\ w.now <= MaxTime
    /\ now' = w.now
    /\ cache_data' = w.cd
    /\ cache_timestamp' = w.ct
    /\ rate_limit_remaining' = w.q.rem
    /\ rate_limit_reset' = w.q.reset
    /\ server' = w.srv
    /\ fetched' = w.fetched
    /\ last' = [l EXCEPT !.log = w.log, !.waits = w.waits, !.pre = Before]
    /\ UNCHANGED <<threads, loop>>

----------------------------------------------------------------------------
(* Actions: one per function *)

\* a call of get_following, the server answering by one of the scripts envs and the
\* fetch taking one of the times dts
GetFollowingIn(envs, dts) ==
    Idle /\ \E force \in BOOLEAN, env \in envs, dt \in dts :
        \E g \in {get_following(force, World, env, NoHeaders, dt)} :
            Commit(g.w, [Call("get_following") EXCEPT !.force = force, !.exc = g.exc,
                                                      !.list = g.list, !.hit = g.hit,
                                                      !.stored = g.stored])

GetFollowersIn(envs, dts) ==
    Idle /\ \E force \in BOOLEAN, env \in envs, dt \in dts :
        \E g \in {get_followers(force, World, env, NoHeaders, dt)} :
            Commit(g.w, [Call("get_followers") EXCEPT !.force = force, !.exc = g.exc,
                                                      !.list = g.list, !.hit = g.hit,
                                                      !.stored = g.stored])

GetFollowing == GetFollowingIn(Scripts(1), Elapsed)

GetFollowers == GetFollowersIn(Scripts(1), Elapsed)

\* logins a caller looks up: the acting account, and one the service does not know
Lookups == {USERNAME, <<"z">>}

GetUserInfo ==
    Idle /\ \E username \in Lookups, kind \in Kinds1, hdr \in Headers :
        \E u \in {get_user_info(username, World, kind, hdr, 0)} :
            Commit(u.w, [Call("get_user_info") EXCEPT !.arg = username, !.ok = u.found,
                                                     !.exc = u.exc])

UnfollowUser ==
    Idle /\ \E name \in Names, kind \in Kinds1 :
        \E u \in {unfollow_user(name, World, kind, NoHeaders, 0)} :
            Commit(u.w, [Call("unfollow_user") EXCEPT !.arg = name, !.ok = u.ok])

FollowUser ==
    Idle /\ \E name \in Names, env \in {<<>>, <<"fail">>}, kind \in Kinds1 :
        \E f \in {follow_user(name, World, env, kind, NoHeaders, 0)} :
            Commit(f.w, [Call("follow_user") EXCEPT !.arg = name, !.ok = f.ok,
                                                    !.put = f.put, !.list = f.got.list,
                                                    !.hit = f.got.hit, !.exc = f.got.exc,
                                                    !.stored = f.got.stored])

GetAccountStats ==
    Idle /\ \E force \in BOOLEAN, env1 \in {<<>>, <<"fail">>}, env2 \in {<<>>, <<"fail">>},
       kind \in {"ok", "404", "fail"} :
        \E s \in {get_account_stats(force, World, env1, env2, kind, NoHeaders, 0)} :
            Commit(s.w, [Call("get_account_stats") EXCEPT !.force = force,
                                                          !.snap = SnapOf(s)])

ClearCache ==
    Idle /\ Commit(clear_cache(World), Call("clear_cache"))

\* the function returns to the UI layer
Return ==
    /\ ~Idle
    /\ last' = Call("none")
    /\ UNCHANGED <<now, cache_data, cache_timestamp, rate_limit_remaining,
                   rate_limit_reset, server, fetched, threads, loop>>

\* time passes between two calls
Tick ==
    /\ Idle
    /\ \E d \in {CACHE_TIMEOUT \div 2, CACHE_TIMEOUT} :
          /\ now + d <= MaxTime
          /\ now' = now + d
    /\ UNCHANGED <<cache_data, cache_timestamp, rate_limit_remaining, rate_limit_reset,
                   server, fetched, last, threads, loop>>

----------------------------------------------------------------------------
(* The program: start-up, then any sequence of calls *)

InitGlobals ==
    /\ now = StartTime
    /\ cache_data = [r \in Relations |-> <<>>]
    /\ cache_timestamp = [r \in Relations |-> 0]
    /\ rate_limit_remaining = INITIAL_REMAINING
    /\ rate_limit_reset = 0
    /\ fetched = [r \in Relations |-> FALSE]
    /\ last = Call("none")
    /\ threads = [h \in Listeners |-> Parked]
    /\ loop = NoLoop

Init ==
    /\ InitGlobals
    /\ server \in {[following |-> <<<<"a">>, <<"B">>>>, followers |-> g] :
                      g \in {<<>>, <<<<"B">>>>}}

Next ==
    \/ GetFollowing
    \/ GetFollowers
    \/ GetUserInfo
    \/ UnfollowUser
    \/ FollowUser
    \/ GetAccountStats
    \/ ClearCache
    \/ Return
    \/ Tick

Spec == Init /\ [][Next]_vars

----------------------------------------------------------------------------
(* The Paginator alone: get_paginated applied to any list the server may hold,
   under any script of answers. *)

\* every sequence over S of length at most n
SeqsUpTo(S, n) == UNION {[1..k -> S] : k \in 0..n}

\* the logins of the items the server pages
PageLogins == {<<"a">>, <<"B">>, <<"c">>}

GetPaginated ==
    Idle /\ \E env \in Scripts(MaxScript), hdr \in Headers :
        \E p \in {get_paginated("following", server.following, env, hdr,
                                [rem |-> rate_limit_remaining, reset |-> rate_limit_reset],
                                now)} :
            Commit([World EXCEPT !.q = p.q, !.log = p.log, !.waits = p.waits],
                   [Call("get_paginated") EXCEPT
                       !.exc = p.exc,
                       !.list = IF p.exc = "none" THEN p.results ELSE <<>>])

InitPaginate ==
    /\ InitGlobals
    /\ server \in {[following |-> f, followers |-> <<>>] :
                      f \in SeqsUpTo(PageLogins, MaxItems)}

NextPaginate ==
    \/ GetPaginated
    \/ Return

SpecPaginate == InitPaginate /\ [][NextPaginate]_vars

----------------------------------------------------------------------------
(* get_paginated one iteration at a time, under a server that answers 429 finitely
   often (MaxThrottle times at most) or to every request (forever).  The loop goes
   on as long as it can: the specification is fair to its iterations. *)

\* the locals kept from one iteration to the next: the requests and waits already
\* made play no part in the next iteration, and page_count is compared with 1 only,
\* so it is counted up to MaxPageCount
Kept(ls) ==
    [ls EXCEPT !.log = <<>>, !.waits = <<>>, !.page_count = Min(@, MaxPageCount)]

\* where the loop is after an iteration left the locals ls
PositionOf(ls) ==
    IF ls.exc # "none" THEN "raised"
    ELSE IF ls.current_url = {} THEN "returned"
    ELSE "running"

\* one iteration, the server's answer being of one of the kinds
Iterate(kinds) ==
    /\ loop.pc = "running"
    /\ \E kind \in kinds :
          \E ls \in {PagIteration(loop.ls, server.following, kind, NoHeaders, now)} :
              loop' = [loop EXCEPT !.ls = Kept(ls),
                                   !.pc = PositionOf(ls),
                                   !.throttled = IF kind = "429"
                                                 THEN Min(@ + 1, MaxThrottle) ELSE @]
    /\ UNCHANGED <<now, cache_data, cache_timestamp, rate_limit_remaining,
                   rate_limit_reset, server, fetched, last, threads>>

\* the page is served
FetchServed == ~loop.forever /\ Iterate({"ok"})

\* the request is answered 429
FetchThrottled == (loop.forever \/ loop.throttled < MaxThrottle) /\ Iterate({"429"})

\* the request ends in an error
FetchFailed == ~loop.forever /\ Iterate({"403", "fail"})

InitFetch ==
    /\ now = StartTime
    /\ cache_data = [r \in Relations |-> <<>>]
    /\ cache_timestamp = [r \in Relations |-> 0]
    /\ rate_limit_remaining = INITIAL_REMAINING
    /\ rate_limit_reset = 0
    /\ fetched = [r \in Relations |-> FALSE]
    /\ last = Call("none")
    /\ threads = [h \in Listeners |-> Parked]
    /\ server \in {[following |-> f, followers |-> <<>>] :
                      f \in SeqsUpTo(PageLogins, MaxItems)}
    /\ loop \in {[pc |-> "running",
                  ls |-> NewFetch("following", [rem |-> INITIAL_REMAINING, reset |-> 0]),
                  throttled |-> 0, forever |-> f] : f \in BOOLEAN}

NextFetch ==
    \/ FetchServed
    \/ FetchThrottled
    \/ FetchFailed

SpecFetch == InitFetch /\ [][NextFetch]_vars /\ WF_vars(NextFetch)

----------------------------------------------------------------------------
(* The snapshot alone: get_account_stats at start-up, for any two lists the
   server may hold (logins that differ in case only included). *)

\* longest list of the snapshot's specification
MaxList == 2

SnapLogins == {<<"a">>, <<"A">>, <<"b">>}

InitSnapshot ==
    /\ InitGlobals
    /\ server \in {[following |-> f, followers |-> g] :
                      f \in SeqsUpTo(SnapLogins, MaxList),
                      g \in SeqsUpTo(SnapLogins, MaxList)}

NextSnapshot == GetAccountStats

SpecSnapshot == InitSnapshot /\ [][NextSnapshot]_vars

----------------------------------------------------------------------------
(* The Bulk Orchestrator: one bulk run at start-up, for any lists the server may
   hold, any answers to the items' requests and to the refresh, and any quota. *)

\* most items of a bulk run
MaxBulk == 2

BulkLogins == {<<"a">>, <<"B">>}

\* the orders in which a set of logins may be listed
Orders == {<<<<"a">>, <<"B">>>>, <<<<"B">>, <<"a">>>>}

\* the answers to the requests of the items of a run
BulkKinds == [1..MaxBulk -> {"ok", "403", "429"}]

\* quota headers: none, or a low quota that resets in a minute or in ten seconds
BulkHeaders ==
    {NoHeaders, LowQuota, [rem |-> {50}, reset |-> {StartTime + 10}]}

\* what an unfollow run meets
BulkEnvs ==
    [order : Orders, stats : {<<>>, <<"fail">>}, kinds : BulkKinds,
     refresh : {<<>>, <<"fail">>}, hdr : BulkHeaders]

\* what a follow run meets (it lists no set and reads no snapshot)
FollowEnvs ==
    [kinds : BulkKinds, refresh : {<<>>, <<"fail">>}, hdr : BulkHeaders]

\* what the user types in the follow box, split at the commas
Pieces ==
    {p \in SeqsUpTo({<<"a">>, <<" ", "B">>, <<" ">>}, MaxBulk) : p # <<>>}

\* the counts a caller passes: negative, zero, up to more than there are non-mutuals
Counts == (-1)..(MaxBulk + 1)

ExecuteSelectiveUnfollow ==
    Idle /\ \E unfollow_count \in Counts, env \in BulkEnvs :
        \E o \in {execute_selective_unfollow(unfollow_count, World, env)} :
            Commit(o.w, [Call("execute_selective_unfollow") EXCEPT
                            !.arg = unfollow_count, !.bulk = BulkOf(o), !.snap = o.snap])

ExecuteFullUnfollow ==
    Idle /\ \E env \in BulkEnvs :
        \E o \in {execute_full_unfollow(World, env)} :
            Commit(o.w, [Call("execute_full_unfollow") EXCEPT
                            !.bulk = BulkOf(o), !.snap = o.snap])

FollowSelectedUsers ==
    Idle /\ \E pieces \in Pieces, env \in FollowEnvs :
        \E o \in {follow_selected_users(pieces, World, env)} :
            Commit(o.w, [Call("follow_selected_users") EXCEPT !.bulk = BulkOf(o)])

InitBulk ==
    /\ InitGlobals
    /\ server \in {[following |-> f, followers |-> g] :
                      f \in SeqsUpTo(BulkLogins, MaxBulk),
                      g \in {<<>>, <<<<"B">>>>}}

NextBulk ==
    \/ ExecuteSelectiveUnfollow
    \/ ExecuteFullUnfollow
    \/ FollowSelectedUsers

SpecBulk == InitBulk /\ [][NextBulk]_vars

----------------------------------------------------------------------------
(* The Relationship Cache over lists of several pages: the two gets, for any list of
   following the server may hold and any script of answers, a fetch failing on a
   later page included. *)

FetchFollowing == GetFollowingIn(Scripts(MaxScript), {0})

FetchFollowers == GetFollowersIn(Scripts(MaxScript), {0})

InitCache ==
    /\ InitGlobals
    /\ server \in {[following |-> f, followers |-> g] :
                      f \in SeqsUpTo(PageLogins, MaxItems),
                      g \in {<<>>, <<<<"c">>>>}}

NextCache ==
    \/ FetchFollowing
    \/ FetchFollowers
    \/ UnfollowUser
    \/ ClearCache
    \/ Return

SpecCache == InitCache /\ [][NextCache]_vars

----------------------------------------------------------------------------
(* Clearing the cache: the program with both lists cached (after a snapshot was
   read), then clear_cache_handler and the gets in any order.  The server's lists are
   not empty, so an empty entry is one that was cleared and not fetched since. *)

InitClear ==
    /\ now = StartTime
    /\ server \in {[following |-> f, followers |-> <<<<"c">>>>] :
                      f \in SeqsUpTo(PageLogins, MaxItems) \ {<<>>}}
    /\ cache_data = [r \in Relations |-> MapStrip(server[r])]
    /\ cache_timestamp = [r \in Relations |-> StartTime]
    /\ rate_limit_remaining \in {INITIAL_REMAINING, MIN_RATE_LIMIT_THRESHOLD}
    /\ rate_limit_reset = 0
    /\ fetched = [r \in Relations |-> TRUE]
    /\ last = Call("none")
    /\ threads = [h \in Listeners |-> Parked]
    /\ loop = NoLoop

NextClear ==
    \/ ClearCache
    \/ FetchFollowing
    \/ FetchFollowers
    \/ Return

SpecClear == InitClear /\ [][NextClear]_vars

----------------------------------------------------------------------------
(* The Request Executor alone: make_api_request applied to any method it supports
   and any response. *)

Methods == {"GET", "DELETE", "PUT"}

\* statuses of the responses, both sides of 400 included
Statuses == {200, 204, 302, 399, 400, 403, 404, 429, 500}

\* the quota headers of a response: none, both, or one of the two
ExecHeaders ==
    Headers \cup {[rem |-> {70}, reset |-> {}], [rem |-> {}, reset |-> {StartTime + 90}]}

Responses ==
    {NoAnswer} \cup
    [failed : {FALSE}, status : Statuses, hdr : ExecHeaders,
     body : {"empty", "json", "invalid"},
     json_raises : {"RequestException", "ValueError"}]

MakeApiRequest ==
    Idle /\ \E method \in Methods, resp \in Responses :
        \E r \in {make_api_request(method, resp,
                                   [rem |-> rate_limit_remaining,
                                    reset |-> rate_limit_reset])} :
            Commit([World EXCEPT !.q = r.q],
                   [Call("make_api_request") EXCEPT
                       !.exc = r.exc,
                       !.req = [method |-> method, resp |-> resp, exc |-> r.exc,
                                status_code |-> r.status_code,
                                reset_time |-> r.reset_time]])

InitExecute ==
    /\ InitGlobals
    /\ server = [following |-> <<>>, followers |-> <<>>]

NextExecute ==
    \/ MakeApiRequest
    \/ Return

SpecExecute == InitExecute /\ [][NextExecute]_vars

----------------------------------------------------------------------------
(* The quota state: the functions that send requests (make_api_request itself, and
   get_paginated through it) and those that send none (a get served from the cache,
   clear_cache_handler). *)

InitQuota ==
    /\ InitGlobals
    /\ server = [following |-> <<<<"a">>, <<"B">>, <<"c">>>>, followers |-> <<>>]

NextQuota ==
    \/ MakeApiRequest
    \/ GetPaginated
    \/ FetchFollowing
    \/ ClearCache
    \/ Return

SpecQuota == InitQuota /\ [][NextQuota]_vars

----------------------------------------------------------------------------
(* The delay policy alone: one request, sent with any quota remaining. *)

\* largest quota remaining at start-up
MaxQuota == 1100

InitDelay ==
    /\ now = StartTime
    /\ cache_data = [r \in Relations |-> <<>>]
    /\ cache_timestamp = [r \in Relations |-> 0]
    /\ rate_limit_remaining \in 0..MaxQuota
    /\ rate_limit_reset = 0
    /\ fetched = [r \in Relations |-> FALSE]
    /\ last = Call("none")
    /\ threads = [h \in Listeners |-> Parked]
    /\ loop = NoLoop
    /\ server = [following |-> <<>>, followers |-> <<>>]

NextDelay == GetUserInfo

SpecDelay == InitDelay /\ [][NextDelay]_vars

----------------------------------------------------------------------------
(* The handlers as the UI layer runs them: every click starts the handler of its
   listener in a worker thread of the server; a listener runs one handler at a
   time, and nothing in app.py makes one listener wait for another.  A handler
   gives way to the others while it waits for the answer of a request. *)

\* the handler sends the request of step st and waits for the answer
Sending(th, st, current_time) ==
    [th EXCEPT !.pc = "in_flight", !.req = st, !.t0 = current_time]

\* the handler is done with the first of its steps
Stepped(th) == [th EXCEPT !.pc = "ready", !.req = NoStep, !.todo = Tail(@)]

\* the handler th runs its next step st up to the request the step sends, if any;
\* order: the order in which the interpreter lists a set
AfterStep(th, st, order) ==
    CASE st.op = "get" ->
           IF CacheFresh(st.force, cache_data[st.rel], cache_timestamp[st.rel], now)
           THEN Stepped([th EXCEPT !.lists[st.rel] = cache_data[st.rel]])
           ELSE Sending(th, st, now)
      [] st.op = "put" ->
           IF AlreadyFollowing(FollowName(st.name), th.lists.following)
           THEN Stepped([th EXCEPT !.successful = @ + 1])
           ELSE Sending(th, [st EXCEPT !.name = FollowName(st.name)], th.t0)
      [] st.op = "plan" ->
           LET sets == relationship_sets(th.lists.following, th.lists.followers)
           IN  IF sets.non_mutuals = {} THEN [th EXCEPT !.todo = <<>>]
               ELSE [th EXCEPT !.todo = UnfollowSteps(ListOf(sets.non_mutuals, order))]
      [] st.op = "refresh" ->
           IF th.successful > 0
           THEN [th EXCEPT !.todo = <<Step("get", "following", TRUE, <<>>)>>]
           ELSE Stepped(th)
      [] st.op = "clear" -> Stepped(th)
      [] OTHER -> Sending(th, st, th.t0)

\* a click: the listener starts its handler
Click ==
    \E h \in Listeners :
        /\ threads[h].pc = "idle"
        /\ threads' = [threads EXCEPT ![h] = [Parked EXCEPT !.pc = "ready",
                                                            !.todo = Program(h)]]
        /\ UNCHANGED <<now, cache_data, cache_timestamp, rate_limit_remaining,
                       rate_limit_reset, server, fetched, last, loop>>

\* a running handler goes on to its next request
Proceed ==
    \E h \in Listeners, order \in Orders :
        /\ threads[h].pc = "ready"
        /\ threads[h].todo # <<>>
        /\ threads' = [threads EXCEPT
                          ![h] = AfterStep(threads[h], Head(threads[h].todo), order)]
        /\ \E w \in {IF Head(threads[h].todo).op = "clear" THEN clear_cache(World)
                      ELSE World} :
              /\ cache_data' = w.cd
              /\ cache_timestamp' = w.ct
              /\ fetched' = w.fetched
        /\ UNCHANGED <<now, rate_limit_remaining, rate_limit_reset, server, last, loop>>

\* the answer to the request a handler waits for arrives (every request is served,
\* and every list fits on a page)
Receive ==
    \E h \in Listeners :
        /\ threads[h].pc = "in_flight"
        /\ LET th == threads[h]
               st == th.req
               followed == st.op = "put" /\ AccountOf(st.name) # {}
           IN  /\ threads' = [threads EXCEPT ![h] =
                     Stepped(CASE st.op = "get" ->
                                    [th EXCEPT !.lists[st.rel] = MapStrip(server[st.rel])]
                               [] st.op = "delete" \/ followed ->
                                    [th EXCEPT !.successful = @ + 1]
                               [] OTHER -> th)]
               /\ cache_data' =
                     IF st.op = "get"
                     THEN [cache_data EXCEPT ![st.rel] = MapStrip(server[st.rel])]
                     ELSE cache_data
               /\ cache_timestamp' =
                     IF st.op = "get"
                     THEN [cache_timestamp EXCEPT ![st.rel] = Stamp(th.t0, now)]
                     ELSE IF followed
                     THEN [cache_timestamp EXCEPT !.following = Invalidate(@, TRUE)]
                     ELSE cache_timestamp
               /\ fetched' = IF st.op = "get" THEN [fetched EXCEPT ![st.rel] = TRUE]
                             ELSE fetched
               /\ server' =
                     IF st.op = "delete"
                     THEN [server EXCEPT !.following = ServerUnfollow(@, st.name)]
                     ELSE IF followed
                     THEN [server EXCEPT !.following = ServerFollow(@, st.name)]
                     ELSE server
        /\ UNCHANGED <<now, rate_limit_remaining, rate_limit_reset, last, loop>>

\* the handler returns
Finish ==
    \E h \in Listeners :
        /\ threads[h].pc = "ready"
        /\ threads[h].todo = <<>>
        /\ threads' = [threads EXCEPT ![h] = Parked]
        /\ UNCHANGED <<now, cache_data, cache_timestamp, rate_limit_remaining,
                       rate_limit_reset, server, fetched, last, loop>>

InitHandlers ==
    /\ InitGlobals
    /\ server = [following |-> <<<<"a">>, <<"B">>>>, followers |-> <<<<"B">>>>]

NextHandlers ==
    \/ Click
    \/ Proceed
    \/ Receive
    \/ Finish

SpecHandlers == InitHandlers /\ [][NextHandlers]_vars

----------------------------------------------------------------------------
(* Properties *)

\* the call recorded in "last" is a call of the cache's get for rel
GetOf(rel) ==
    last.op = (IF rel = "following" THEN "get_following" ELSE "get_followers")

\* a request for a page of a relation list
IsPage(e) == e.method = "GET" /\ e.url.path \in Relations

\* the requests of the last call that were answered 429
Throttled == {i \in DOMAIN last.log : last.log[i].status = 429}

\* the list s holds the string x, compared as Python compares strings
Holds(s, x) == \E i \in DOMAIN s : s[i] = x

\* C1: the sets get_account_stats returns for the lists A (following) and B
\* (followers) it read are mutuals = A \cap B, non_mutuals = A \ B and
\* not_following_back = B \ A, membership decided by equality of the strings
\* (logins that differ in case are different identities); the three are pairwise
\* disjoint, mutuals \cup non_mutuals = A and mutuals \cup not_following_back = B.
C1_SnapshotSets ==
    (last.op = "get_account_stats" /\ ~last.snap.error) =>
        LET A == last.snap.following
            B == last.snap.followers
            M == last.snap.mutuals
            N == last.snap.non_mutuals
            F == last.snap.not_following_back
        IN  /\ \A x \in SnapLogins \cup Accounts \cup M \cup N \cup F :
                  /\ x \in M <=> (Holds(A, x) /\ Holds(B, x))
                  /\ x \in N <=> (Holds(A, x) /\ ~Holds(B, x))
                  /\ x \in F <=> (Holds(B, x) /\ ~Holds(A, x))
            /\ M \cap N = {} /\ M \cap F = {} /\ N \cap F = {}
            /\ M \cup N = Range(A)
            /\ M \cup F = Range(B)

\* C1's case: following [a, b], followers [b, A]: b is mutual, a is not followed
\* back by "A", which is another identity
C1_Witness ==
    /\ last.op = "get_account_stats" /\ ~last.snap.error
    /\ last.snap.following = <<<<"a">>, <<"b">>>>
    /\ last.snap.followers = <<<<"b">>, <<"A">>>>
    /\ last.snap.mutuals = {<<"b">>}
    /\ last.snap.non_mutuals = {<<"a">>}
    /\ last.snap.not_following_back = {<<"A">>}

\* C2: a get with force_refresh = False made after a successful fetch of the
\* relation, while now - cache_timestamp < CACHE_TIMEOUT, returns the stored list
\* and issues no request, whatever list was fetched (the empty list included).
C2_CacheHit ==
    \A rel \in Relations :
        (/\ GetOf(rel) /\ ~last.force
         /\ last.pre.fetched[rel]
         /\ last.pre.now - last.pre.ct[rel] < CACHE_TIMEOUT)
        => (last.hit /\ last.log = <<>> /\ last.list = last.pre.cd[rel])

\* C3: when the fetch of a get fails, get returns the previously cached list and
\* raises nothing whenever the relation was fetched successfully before, and raises
\* only when it never was.
C3_StaleFallback ==
    \A rel \in Relations :
        (/\ GetOf(rel) /\ ~last.hit /\ ~last.stored)
        => IF last.pre.fetched[rel]
           THEN last.exc = "none" /\ last.list = last.pre.cd[rel]
           ELSE last.exc # "none"

\* what a get made on an expired entry does, the stamp of the replaced entry being
\* stamp(call start, call end): one run of the paginator for that relation and, when
\* it succeeds, the entry replaced by the list the server holds
RefetchOnExpiry(stamp(_, _)) ==
    \A rel \in Relations :
        (/\ GetOf(rel) /\ ~last.force
         /\ last.pre.now - last.pre.ct[rel] >= CACHE_TIMEOUT)
        => /\ ~last.hit
           /\ Cardinality({i \in DOMAIN last.log : last.log[i].params # {}}) = 1
           /\ \A i \in DOMAIN last.log : IsPage(last.log[i]) /\ last.log[i].url.path = rel
           /\ last.stored <=> last.log[Len(last.log)].status = 200
           /\ last.stored =>
                 /\ last.exc = "none"
                 /\ last.list = MapStrip(last.pre.srv[rel])
                 /\ cache_data[rel] = last.list
                 /\ cache_timestamp[rel] = stamp(last.pre.now, now)
           /\ ~last.stored =>
                 /\ cache_data[rel] = last.pre.cd[rel]
                 /\ cache_timestamp[rel] = last.pre.ct[rel]

StartOfCall(t0, t1) == t0
EndOfCall(t0, t1) == t1

\* C4 as stated: a get with force_refresh = False made when
\* now - cache_timestamp >= CACHE_TIMEOUT runs the paginator exactly once; on success
\* the entry is replaced by the fetched list and stamped with the time of the
\* replacement, and so is fresh for the next CACHE_TIMEOUT seconds.
C4_StampedAtReplacement ==
    /\ RefetchOnExpiry(EndOfCall)
    /\ \A rel \in Relations :
          (GetOf(rel) /\ last.stored) => now - cache_timestamp[rel] < CACHE_TIMEOUT

\* C4: a get with force_refresh = False made when now - cache_timestamp >=
\* CACHE_TIMEOUT runs the paginator exactly once; on success the entry is replaced
\* by the fetched list and stamped with the time read when the get began (before
\* the fetch), so the entry is fresh until CACHE_TIMEOUT seconds after that.
C4_RefetchOnExpiry ==
    RefetchOnExpiry(StartOfCall)

\* C4's case: an entry that was fetched and has aged CACHE_TIMEOUT is replaced by a
\* fetch that takes time, and carries the time the get began
C4_Witness ==
    \E rel \in Relations :
        /\ GetOf(rel) /\ ~last.force /\ last.stored
        /\ last.pre.cd[rel] # <<>>
        /\ last.pre.ct[rel] >= StartTime
        /\ last.pre.now - last.pre.ct[rel] >= CACHE_TIMEOUT
        /\ cache_timestamp[rel] = last.pre.now
        /\ now > last.pre.now

\* C5: when no request fails, get_paginated returns the items the server holds, in
\* the server's order, and issues one request per page: P requests, for the pages
\* 1..P in turn, P being the number of pages at the page size asked for.
C5_PaginationComplete ==
    (/\ last.op = "get_paginated"
     /\ \A i \in DOMAIN last.log : last.log[i].status = 200)
    => /\ last.exc = "none"
       /\ last.list = server.following
       /\ Len(last.log) = PagesOf(Len(server.following), HintedPageLen)
       /\ \A i \in DOMAIN last.log : last.log[i].url.page = i

\* C5's case: three items on two pages
C5_Witness ==
    /\ last.op = "get_paginated"
    /\ \A i \in DOMAIN last.log : last.log[i].status = 200
    /\ Len(last.list) = MaxItems
    /\ Len(last.log) > 1

\* C6: whatever pages were answered 429 (the first included), get_paginated that
\* ends normally returns every item once, and has issued P requests plus one per 429.
C6_RateLimitRecovery ==
    (last.op = "get_paginated" /\ last.exc = "none")
    => /\ last.list = server.following
       /\ Len(last.log) =
             PagesOf(Len(server.following), HintedPageLen) + Cardinality(Throttled)

\* C7 as stated: every request answered 429 is followed by a retry of the same
\* request, whatever operation issued it; a 429 is never what an operation ends on.
C7_AlwaysRetried ==
    \A i \in Throttled :
        /\ i < Len(last.log)
        /\ last.log[i + 1].method = last.log[i].method
        /\ last.log[i + 1].url = last.log[i].url

\* C7: a 429 is recovered (wait, then the same page requested again) by
\* get_paginated only, which never raises it; get_user_info, follow_user's PUT and
\* unfollow_user send their request once: answered 429, they end there and return
\* None / False.
C7_RetriedByPaginatorOnly ==
    /\ last.exc # "RateLimitExceededError"
    /\ Len(last.waits) = Cardinality({i \in Throttled : IsPage(last.log[i])})
    /\ \A i \in Throttled :
          IF IsPage(last.log[i])
          THEN /\ i < Len(last.log)
               /\ IsPage(last.log[i + 1])
               /\ last.log[i + 1].url = last.log[i].url
          ELSE /\ i = Len(last.log)
               /\ Cardinality({j \in DOMAIN last.log : ~IsPage(last.log[j])}) = 1
               /\ ~last.ok

\* C7's case: a DELETE answered 429 is not sent again, and unfollow_user returns False
C7_Witness ==
    /\ last.op = "unfollow_user"
    /\ Len(last.log) = 1
    /\ last.log[1].method = "DELETE"
    /\ last.log[1].status = 429
    /\ ~last.ok

\* C8: unfollow_user returns True exactly when its DELETE was answered 204 or 404;
\* it sends one DELETE for the stripped name (none for a blank name) and never
\* touches the cache; after a 204 the server no longer lists the name, so that a
\* second DELETE is answered 404, on which the call returns True and the server's
\* list stays as the first call left it.
C8_UnfollowIdempotent ==
    last.op = "unfollow_user" =>
        /\ last.ok <=> (last.log # <<>> /\ last.log[1].status \in {204, 404})
        /\ last.log = <<>> <=> Strip(last.arg) = <<>>
        /\ last.log # <<>> =>
              /\ Len(last.log) = 1
              /\ last.log[1].method = "DELETE"
              /\ last.log[1].url.name = Strip(last.arg)
        /\ cache_data = last.pre.cd
        /\ cache_timestamp = last.pre.ct
        /\ (last.log # <<>> /\ last.log[1].status = 204) =>
              ~Follows(server.following, last.arg)
        /\ (last.log = <<>> \/ last.log[1].status # 204) =>
              server = last.pre.srv

\* C8's case: the second unfollow of "a": "a" was followed at start-up and is not
\* any more, the DELETE is answered 404 and the call returns True
C8_Witness ==
    /\ last.op = "unfollow_user" /\ last.arg = <<"a">>
    /\ ~Follows(last.pre.srv.following, last.arg)
    /\ last.log # <<>> /\ last.log[1].status = 404
    /\ last.ok
    /\ server = last.pre.srv
    /\ Holds(cache_data.following, <<"a">>)

\* C9: follow_user called with a name that is in the following list its cache read
\* gave (logins kept as the server returned them) returns True without a PUT and
\* leaves the cache as the read left it; a PUT is issued only for a name that is
\* not in that list.
C9_FollowShortCircuit ==
    (last.op = "follow_user" /\ last.exc = "none" /\ Holds(last.list, last.arg))
    => /\ last.ok
       /\ ~last.put
       /\ cache_data.following = last.list
       /\ last.hit => cache_timestamp = last.pre.ct

\* C10: follow_user sets cache_timestamp["following"] to 0 exactly when it sent a
\* PUT that was answered 204; otherwise both timestamps are as its own read of the
\* following list left them; and a get_following(False) that finds the timestamp at
\* 0 fetches the list again.
C10_FollowInvalidation ==
    /\ last.op = "follow_user" =>
          LET answered204 == /\ last.put
                             /\ last.log[Len(last.log)].method = "PUT"
                             /\ last.log[Len(last.log)].status = 204
              after_read  == IF last.stored THEN last.pre.now ELSE last.pre.ct.following
          IN  /\ last.ok /\ last.put <=> answered204
              /\ cache_timestamp.following = (IF answered204 THEN 0 ELSE after_read)
              /\ cache_timestamp.followers = last.pre.ct.followers
    /\ (last.op = "get_following" /\ ~last.force /\ last.pre.ct.following = 0) =>
          ~last.hit /\ last.log # <<>>

\* C10's case: the read that comes after a follow answered 204: the list was fetched
\* before, its timestamp is 0, and it is fetched again
C10_Witness ==
    /\ last.op = "get_following" /\ ~last.force
    /\ last.pre.fetched.following
    /\ last.pre.cd.following # <<>>
    /\ last.pre.ct.following = 0
    /\ ~last.hit /\ last.stored

\* C15: the delay slept before a request is 2.0 s when the quota remaining is at
\* most 100, 1.0 s when it is above 100 and at most 1000, 0.2 s when it is above
\* 1000; no smaller quota gets a shorter delay.
C15_DelayPolicy ==
    last.op = "get_user_info" =>
        LET r == last.pre.rem
            d == last.log[1].delay
        IN  /\ d = (IF r <= 100 THEN 2000 ELSE IF r <= 1000 THEN 1000 ELSE 200)
            /\ \A r1 \in 0..MaxQuota :
                  r1 <= r => calculate_adaptive_delay(r1) >= d

\* C15's case: a request sent with exactly 1000 remaining waits 1.0 s
C15_Witness ==
    /\ last.op = "get_user_info"
    /\ last.pre.rem = 1000
    /\ last.log[1].delay = 1000

\* C14: make_api_request raises RateLimitExceededError with the reset time of the
\* headers (0 when absent) for a 429, whatever the method; returns the response for a
\* DELETE answered 404; raises GitHubAPIError carrying the status for every other
\* status >= 400; raises GitHubAPIError with status 0 when the send fails; and returns
\* the response for every status below 400.
C14_Classification ==
    last.op = "make_api_request" =>
        LET m    == last.req.method
            resp == last.req.resp
            r    == last.req
        IN  IF resp.failed
            THEN r.exc = "GitHubAPIError" /\ r.status_code = 0
            ELSE IF resp.status = 429
            THEN /\ r.exc = "RateLimitExceededError"
                 /\ r.reset_time = (IF resp.hdr.reset = {} THEN 0 ELSE TheOne(resp.hdr.reset))
            ELSE IF m = "DELETE" /\ resp.status = 404
            THEN r.exc = "none" /\ r.status_code = 404
            ELSE IF resp.status >= 400
            THEN r.exc = "GitHubAPIError" /\ r.status_code = resp.status
            ELSE r.exc = "none" /\ r.status_code = resp.status

\* C17: get_user_info sends one GET for the user and raises nothing; it returns the
\* profile exactly when the answer is 200, and None on a 404, on any other error
\* status, on a transport error and on any other status; it changes neither the
\* cache nor the server.
C17_LookupUser ==
    last.op = "get_user_info" =>
        /\ Len(last.log) = 1
        /\ last.log[1].method = "GET"
        /\ last.log[1].url = [path |-> "users", name |-> last.arg]
        /\ last.exc = "none"
        /\ last.ok <=> last.log[1].status = 200
        /\ cache_data = last.pre.cd /\ cache_timestamp = last.pre.ct
        /\ server = last.pre.srv

\* C17's case: the lookup of a login the service does not know is answered 404 and
\* returns None
C17_Witness ==
    /\ last.op = "get_user_info"
    /\ AccountOf(last.arg) = {}
    /\ last.log[1].status = 404
    /\ ~last.ok
    /\ last.exc = "none"

\* the last call sent a page request for rel that ended in an error
FailedRead(rel) ==
    \E i \in DOMAIN last.log :
        /\ IsPage(last.log[i]) /\ last.log[i].url.path = rel
        /\ last.log[i].status \notin {200, 429}

\* C16: get_account_stats returns the error and three empty lists, and neither lists
\* nor counts, when the read of a relation fails with nothing cached to fall back
\* on; it returns an error only when a read failed; a profile lookup that fails
\* leaves the snapshot as it is, without the profile.
C16_AllOrNothing ==
    last.op = "get_account_stats" =>
        /\ (\E rel \in Relations : FailedRead(rel) /\ last.pre.cd[rel] = <<>>)
              => last.snap.error
        /\ last.snap.error =>
              /\ \E rel \in Relations : FailedRead(rel)
              /\ last.snap.following = <<>> /\ last.snap.followers = <<>>
              /\ last.snap.mutuals = {} /\ last.snap.non_mutuals = {}
              /\ last.snap.not_following_back = {}
              /\ last.snap.total_following = 0 /\ last.snap.total_followers = 0
              /\ ~last.snap.profile
        /\ (\A rel \in Relations : ~FailedRead(rel)) =>
              /\ ~last.snap.error
              /\ last.snap.following = cache_data.following
              /\ last.snap.followers = cache_data.followers
              /\ last.snap.total_following = Len(last.snap.following)
              /\ last.snap.total_followers = Len(last.snap.followers)

\* C16's case: the following list was read, the read of the followers failed with
\* nothing cached: an error and nothing of the following list
C16_Witness ==
    /\ last.op = "get_account_stats"
    /\ last.snap.error
    /\ ~FailedRead("following") /\ cache_data.following # <<>>
    /\ FailedRead("followers") /\ last.pre.cd.followers = <<>>
    /\ last.snap.following = <<>> /\ last.snap.non_mutuals = {}

\* C18: after a 429 for a page, get_paginated waits max(1, reset_time - now + 5)
\* seconds and sends the request for that page again, with the URL and the query
\* parameters (per_page = 100 included) of the request that was answered 429.
C18_SameRequestRetried ==
    last.op = "get_paginated" =>
        /\ Len(last.waits) = Cardinality(Throttled)
        /\ \A k \in DOMAIN last.waits : last.waits[k] >= 1
        /\ \A i \in Throttled :
              /\ i < Len(last.log)
              /\ last.log[i + 1].url = last.log[i].url
              /\ last.log[i + 1].params = last.log[i].params

\* C19: a page request of get_paginated that ends in an error status or a transport
\* error is the last request of the fetch, the error is raised and no list is
\* returned; a list is returned only when every page was fetched, and is then the
\* whole list the server holds.
C19_FailureIsFatal ==
    last.op = "get_paginated" =>
        /\ \A i \in DOMAIN last.log :
              last.log[i].status \notin {200, 429} =>
                  /\ i = Len(last.log)
                  /\ last.exc = "GitHubAPIError"
                  /\ last.list = <<>>
        /\ last.exc = "none" =>
              /\ last.log[Len(last.log)].status = 200
              /\ last.list = server.following
        /\ last.exc # "none" => last.log[Len(last.log)].status \notin {200, 429}

\* C19's case: the first page was fetched, the request for the second failed:
\* nothing is returned
C19_Witness ==
    /\ last.op = "get_paginated"
    /\ Len(last.log) > 1
    /\ last.log[1].status = 200
    /\ last.log[Len(last.log)].status \notin {200, 429}
    /\ last.exc = "GitHubAPIError"
    /\ last.list = <<>>

\* C20: a cached list is empty or was stored by a fetch that succeeded; a get that
\* stores a list stores the whole list the server holds, and one whose fetch fails on
\* any page leaves the list and the timestamp of the relation as they were; a get
\* never changes the entry of the other relation.
C20_CacheSnapshot ==
    /\ \A rel \in Relations : cache_data[rel] # <<>> => fetched[rel]
    /\ \A rel \in Relations :
          GetOf(rel) =>
              /\ last.stored =>
                    /\ ~FailedRead(rel)
                    /\ cache_data[rel] = MapStrip(last.pre.srv[rel])
              /\ ~last.stored =>
                    /\ cache_data[rel] = last.pre.cd[rel]
                    /\ cache_timestamp[rel] = last.pre.ct[rel]
              /\ FailedRead(rel) => ~last.stored
              /\ \A other \in Relations \ {rel} :
                    /\ cache_data[other] = last.pre.cd[other]
                    /\ cache_timestamp[other] = last.pre.ct[other]

\* C20's case: a list is cached, and a fetch of it gets its first page and fails on
\* the next: the cached list and its timestamp stay
C20_Witness ==
    /\ last.op = "get_following"
    /\ last.pre.cd.following # <<>>
    /\ Len(last.log) > 1
    /\ last.log[1].status = 200
    /\ FailedRead("following")
    /\ cache_data.following = last.pre.cd.following
    /\ cache_timestamp.following = last.pre.ct.following

\* the last call is a bulk run
BulkRun ==
    last.op \in {"execute_selective_unfollow", "execute_full_unfollow",
                 "follow_selected_users"}

UnfollowRunOp == last.op \in {"execute_selective_unfollow", "execute_full_unfollow"}

\* the items of the last run that succeeded
Succeeded == {i \in DOMAIN last.bulk.results : last.bulk.results[i].ok}

\* C11: a bulk run over n items processes all of them whatever items fail, and
\* returns a summary: n attempted, as many succeeded as items succeeded, and one
\* outcome per item, in the order of the input.
C11_BulkSummary ==
    (BulkRun /\ last.bulk.items # <<>>) =>
        /\ last.bulk.returned = "summary"
        /\ Len(last.bulk.results) = Len(last.bulk.items)
        /\ \A i \in DOMAIN last.bulk.results :
              last.bulk.results[i].user = last.bulk.items[i]
        /\ last.bulk.successful = Cardinality(Succeeded)

\* C12: after a bulk run in which an operation succeeded the following list was
\* refreshed, and no read of it, one made within the ttl included, returns a login
\* the run unfollowed; when nothing succeeded no refresh is made.
C12_PostRunConsistency ==
    BulkRun =>
        /\ last.bulk.refreshed <=> last.bulk.successful > 0
        /\ UnfollowRunOp =>
              \A i \in Succeeded :
                  ~(/\ CacheFresh(FALSE, cache_data.following,
                                  cache_timestamp.following, now)
                    /\ Holds(cache_data.following, last.bulk.results[i].user))

\* C13: in every bulk run, after each item whose index is a multiple of 10 or the
\* last, if the quota remaining is below 100 the run waits until the reset time,
\* 30 seconds at most, before it goes on; it waits nowhere else.
C13_LowQuotaPause ==
    BulkRun =>
        /\ \A k \in DOMAIN last.bulk.pauses : last.bulk.pauses[k].wait <= PAUSE_CAP
        /\ \A i \in DOMAIN last.bulk.results :
              LET r   == last.bulk.results[i]
                  due == /\ (i % BATCH_SIZE = 0 \/ i = Len(last.bulk.items))
                         /\ r.rem < MIN_RATE_LIMIT_THRESHOLD
                         /\ r.reset > r.at
              IN  IF due
                  THEN \E k \in DOMAIN last.bulk.pauses :
                          /\ last.bulk.pauses[k].i = i
                          /\ last.bulk.pauses[k].wait = Min(PAUSE_CAP, r.reset - r.at)
                  ELSE \A k \in DOMAIN last.bulk.pauses : last.bulk.pauses[k].i # i

\* the requests of the last call that are not page requests
Singles == {i \in DOMAIN last.log : ~IsPage(last.log[i])}

QuotaBefore == [rem |-> last.pre.rem, reset |-> last.pre.reset]
QuotaNow == [rem |-> rate_limit_remaining, reset |-> rate_limit_reset]

\* C22: the quota state changes only when a response is received: after a response,
\* whatever its status, each field is the value of its header, or as it was when the
\* header is absent; a transport failure leaves both as they were; and a call that
\* receives no response (a get served from the cache, clear_cache_handler, a fetch
\* whose requests all fail in transport) leaves both as they were.
C22_QuotaFrame ==
    /\ last.op = "make_api_request" =>
          LET resp == last.req.resp
          IN  IF resp.failed THEN QuotaNow = QuotaBefore
              ELSE /\ rate_limit_remaining =
                         (IF resp.hdr.rem = {} THEN last.pre.rem ELSE TheOne(resp.hdr.rem))
                   /\ rate_limit_reset =
                         (IF resp.hdr.reset = {} THEN last.pre.reset
                          ELSE TheOne(resp.hdr.reset))
    /\ (last.op # "none" /\ last.op # "make_api_request") =>
          /\ (\A i \in DOMAIN last.log : last.log[i].status = 0) => QuotaNow = QuotaBefore
          /\ \E hdr \in Headers :
                /\ rate_limit_remaining =
                      (IF hdr.rem = {} THEN last.pre.rem ELSE TheOne(hdr.rem))
                /\ rate_limit_reset =
                      (IF hdr.reset = {} THEN last.pre.reset ELSE TheOne(hdr.reset))
    /\ (last.op = "get_following" /\ last.hit) => QuotaNow = QuotaBefore
    /\ last.op = "clear_cache" => QuotaNow = QuotaBefore

\* C22's case: a response with an error status that carries the reset header only,
\* received when both fields had been set by an earlier response: the reset time is
\* the header's and the quota remaining is as it was
C22_Witness ==
    /\ last.op = "make_api_request"
    /\ ~last.req.resp.failed
    /\ last.req.resp.status = 500
    /\ last.req.resp.hdr = [rem |-> {}, reset |-> {StartTime + 90}]
    /\ last.pre.rem = 50 /\ last.pre.reset = StartTime + 60
    /\ rate_limit_remaining = 50 /\ rate_limit_reset = StartTime + 90

\* a request that changes the graph
IsMutating(e) == e.method \in {"DELETE", "PUT"}

\* the requests issued while item i of the last run was processed: those after the
\* result of item i - 1 was recorded (after the loop began, for the first item) and
\* before the result of item i was
ItemRequests(i) ==
    LET from == IF i = 1 THEN last.bulk.start ELSE last.bulk.results[i - 1].sent
    IN  {k \in DOMAIN last.log : from < k /\ k <= last.bulk.results[i].sent}

\* C23: in a bulk run every item gets one result, success or failure, and the results
\* are in the order of the items; the requests of item i + 1 come after the result of
\* item i; at most one DELETE or PUT is sent for an item, it is for that item, it is
\* the last request sent for the item whether it succeeds or fails, and no DELETE or
\* PUT is sent outside the items (none before the first, none after the last).
C23_ItemStateMachine ==
    BulkRun =>
        LET res == last.bulk.results
        IN  /\ Len(res) = Len(last.bulk.items)
            /\ \A i \in DOMAIN res :
                  /\ res[i].user = last.bulk.items[i]
                  /\ i > 1 => res[i - 1].sent <= res[i].sent
                  /\ last.bulk.start <= res[i].sent
                  /\ res[i].sent <= Len(last.log)
                  /\ Cardinality({k \in ItemRequests(i) : IsMutating(last.log[k])}) <= 1
                  /\ \A k \in ItemRequests(i) :
                        IsMutating(last.log[k]) =>
                            /\ k = res[i].sent
                            /\ last.log[k].method =
                                  (IF UnfollowRunOp THEN "DELETE" ELSE "PUT")
                            /\ last.log[k].url.name =
                                  (IF UnfollowRunOp THEN res[i].user
                                   ELSE FollowName(res[i].user))
                            /\ res[i].ok <=> last.log[k].status \in
                                  (IF UnfollowRunOp THEN {204, 404} ELSE {204})
                  /\ UnfollowRunOp =>
                        Cardinality(ItemRequests(i)) = 1
            /\ \A k \in DOMAIN last.log :
                  IsMutating(last.log[k]) => \E i \in DOMAIN res : k \in ItemRequests(i)

\* C23's case: a run of two items whose first DELETE fails: the item is recorded as
\* failed, its DELETE is not sent again, and the second item is processed after it
C23_Witness ==
    /\ UnfollowRunOp
    /\ Len(last.bulk.results) = 2
    /\ ~last.bulk.results[1].ok /\ last.bulk.results[2].ok
    /\ Cardinality({k \in DOMAIN last.log : IsMutating(last.log[k])}) = 2
    /\ \E k \in ItemRequests(1) : last.log[k].status = 403
    /\ \E k \in ItemRequests(2) : last.log[k].status = 204

\* C24: a bulk run that has processed its items ends by returning the summary: a
\* refresh of the following list that fails after the items neither turns the
\* summary into an error nor leaves the function as an exception.
C24_SummaryAfterItems ==
    (BulkRun /\ last.bulk.results # <<>>) =>
        /\ last.bulk.returned # "error"
        /\ last.bulk.returned # "raised"
        /\ last.bulk.returned = "summary"

\* the handlers that wait for the answer of a request
InFlight == {h \in Listeners : threads[h].pc = "in_flight"}

\* the handlers that are fetching the list of rel for the cache
Refreshing(rel) ==
    {h \in InFlight : threads[h].req.op = "get" /\ threads[h].req.rel = rel}

\* C25: whatever the clicks and however the handlers they start interleave, at most
\* one request is in flight, and at most one fetch of a relation's list for the
\* cache is in progress.
C25_OneRequestInFlight ==
    /\ Cardinality(InFlight) <= 1
    /\ \A rel \in Relations : Cardinality(Refreshing(rel)) <= 1

\* C26: get_paginated ends when the chain of 'next' links is finite and the server
\* answers 429 finitely often: it returns, and then the whole list, or it raises;
\* a 429 never ends the loop, however many came before, so that under a server that
\* answers 429 to every request the loop never returns.
C26_FetchTerminates ==
    /\ (loop.pc = "running" /\ ~loop.forever) ~> (loop.pc \in {"returned", "raised"})
    /\ [](loop.forever => loop.pc = "running")
    /\ [](loop.pc = "returned" => loop.ls.results = server.following)

\* C26's case: the list of MaxItems items is returned after MaxThrottle requests were
\* answered 429
C26_Witness ==
    /\ loop.pc = "returned"
    /\ ~loop.forever
    /\ loop.throttled = MaxThrottle
    /\ Len(loop.ls.results) = MaxItems

\* the DELETE requests of the last call
Deletes == {k \in DOMAIN last.log : last.log[k].method = "DELETE"}

\* C27: an unfollow run, selective or full, sends a DELETE only for a login of the
\* non-mutuals of the snapshot it read when it began (following \ followers): never
\* for a login of the snapshot's followers, never for one that is not in the
\* snapshot's following list; it sends no DELETE when the snapshot is an error or has
\* no non-mutual; and it sends no PUT.
C27_OnlyNonMutuals ==
    UnfollowRunOp =>
        LET snap == last.snap
        IN  /\ snap.non_mutuals = Range(snap.following) \ Range(snap.followers)
            /\ \A k \in Deletes :
                  /\ last.log[k].url.name \in snap.non_mutuals
                  /\ ~Holds(snap.followers, last.log[k].url.name)
                  /\ Holds(snap.following, last.log[k].url.name)
            /\ (snap.error \/ snap.non_mutuals = {}) => Deletes = {}
            /\ \A k \in DOMAIN last.log : last.log[k].method # "PUT"
            /\ \A x \in Range(snap.followers) :
                  Holds(last.pre.srv.following, x) => Holds(server.following, x)

\* C27's case: the account follows a and B, B follows back: the full run sends one
\* DELETE, for a, and B is still followed
C27_Witness ==
    /\ last.op = "execute_full_unfollow"
    /\ last.snap.following = <<<<"a">>, <<"B">>>>
    /\ last.snap.followers = <<<<"B">>>>
    /\ Cardinality(Deletes) = 1
    /\ \A k \in Deletes : last.log[k].url.name = <<"a">> /\ last.log[k].status = 204
    /\ server.following = <<<<"B">>>>

\* C28: execute_selective_unfollow(count), for every integer count, sends at most
\* count DELETE requests (none for a count below 1), and exactly min(count, number
\* of non-mutuals) of them, for the first entries of the list of non-mutuals of its
\* snapshot, in the list's order.
C28_SelectiveBound ==
    (last.op = "execute_selective_unfollow" /\ ~last.snap.error) =>
        LET n       == Cardinality(Deletes)
            count   == Max(0, last.arg)
            targets == [k \in 1..n |->
                           last.log[CHOOSE j \in Deletes :
                                       Cardinality({i \in Deletes : i <= j}) = k].url.name]
        IN  /\ n <= count
            /\ n = Min(count, Cardinality(last.snap.non_mutuals))
            /\ targets = SubSeq(last.bulk.listed, 1, n)

\* C29: in every get_account_stats result that is not an error, total_following is
\* the number of mutuals plus the number of non-mutuals, and total_followers the
\* number of mutuals plus the number of those not followed back, whatever lists were
\* read (a list with the same login twice included).
C29_CountConsistency ==
    (last.op = "get_account_stats" /\ ~last.snap.error) =>
        /\ last.snap.total_following =
              Cardinality(last.snap.mutuals) + Cardinality(last.snap.non_mutuals)
        /\ last.snap.total_followers =
              Cardinality(last.snap.mutuals) + Cardinality(last.snap.not_following_back)

\* C30: clear_cache_handler leaves both lists empty and both timestamps at 0, and
\* changes neither the quota state nor the server; the next get of a relation,
\* forced or not, fetches the list (it is not served from the cache); when the fetch
\* succeeds the list is stored, and when it fails the error is raised and nothing is
\* returned, no list being left to fall back on.
C30_ClearCache ==
    /\ last.op = "clear_cache" =>
          /\ cache_data = [r \in Relations |-> <<>>]
          /\ cache_timestamp = [r \in Relations |-> 0]
          /\ rate_limit_remaining = last.pre.rem
          /\ rate_limit_reset = last.pre.reset
          /\ server = last.pre.srv
          /\ last.log = <<>>
    /\ \A rel \in Relations :
          (GetOf(rel) /\ last.pre.cd[rel] = <<>>) =>
              /\ last.pre.ct[rel] = 0
              /\ ~last.hit
              /\ last.log # <<>>
              /\ \A i \in DOMAIN last.log :
                    IsPage(last.log[i]) /\ last.log[i].url.path = rel
              /\ IF FailedRead(rel)
                 THEN /\ last.exc # "none"
                      /\ last.list = <<>>
                      /\ cache_data[rel] = <<>>
                      /\ cache_timestamp[rel] = 0
                 ELSE /\ last.exc = "none"
                      /\ last.stored
                      /\ last.list = MapStrip(server[rel])
                      /\ cache_data[rel] = last.list

\* C30's case: the following list was cached, the cache was cleared, and the get
\* that comes next, not forced, fetches the list; the fetch fails and the error is
\* raised
C30_Witness ==
    /\ last.op = "get_following" /\ ~last.force
    /\ last.pre.cd.following = <<>>
    /\ last.pre.ct.following = 0
    /\ ~last.pre.fetched.following
    /\ FailedRead("following")
    /\ last.exc # "none"

====
